---- MODULE Spec2Model ----
(***************************************************************************)
(* A model of the data crawler of discord-bot-template                     *)
(* (src/crawler/crawler.py) and of the Database handle it owns             *)
(* (src/database/database.py).                                             *)
(*                                                                         *)
(*   SpecFetch  one call of DataCrawler.crawl_url, suspended at the        *)
(*              request and at the body read, with stop() and the job      *)
(*              tasks running in between.                                  *)
(*   SpecBatch  DataCrawler.batch_crawl: one task per url, an              *)
(*              asyncio.Semaphore, asyncio.gather and the result filter,   *)
(*              with stop() and the job tasks running in between.          *)
(*   LiveBatch  SpecBatch with the fairness of the asyncio event loop.     *)
(*   Spec       DataCrawler.start / stop and the periodic job tasks.       *)
(*   LiveSpec   Spec with the fairness of the asyncio event loop, for the   *)
(*              job tasks of one start() at a time.                        *)
(*   LiveStop   LiveSpec in which the closes that stop() awaits end.       *)
(*   SpecStatus Spec with calls of DataCrawler.get_status.                 *)
(*   SpecDatabase  a Database called directly: initialize, get_session     *)
(*              and close.                                                 *)
(***************************************************************************)
EXTENDS Integers, Sequences, FiniteSets, TLC

VARIABLES
    \* ---- crawl_url (SpecFetch) ----
    f_in,           \* the call's input: url, network answer, and the state
                    \* of the session when the call was made
    f_out,          \* what the call did: returned value or raised exception
    f_pc,           \* "call" before the call, "request" and "body" while it
                    \* is suspended, "done" after it
    \* ---- batch_crawl (SpecBatch) ----
    urls,           \* the urls argument, a sequence of identifiers
    max_concurrent, \* the max_concurrent argument: [given, val]
    semaphore,      \* asyncio.Semaphore._value
    waiters,        \* asyncio.Semaphore._waiters, FIFO: [task, done]
    tpc,            \* per url task: "created", "waiting", "fetching", "done"
    calls,          \* per url: how many times crawl_url was called for it
    results,        \* per url: what gather collected for its task
    order,          \* the task indices in the order their fetches completed
    valid_results,  \* the list batch_crawl returns
    bpc,            \* batch_crawl itself: "call", "gather", "returned"
    \* ---- DataCrawler / Database fields (Spec, and read by the others) ----
    enabled,        \* settings.crawler.enabled
    running,        \* self.running
    session,        \* self.session: 0 for None, else the n-th ClientSession made
    closed,         \* the ClientSessions that were closed
    engine,         \* database.engine: 0 for None, else the n-th engine made
    disposed,       \* the engines that were disposed
    made,           \* [sessions, engines]: how many of each were made
    initialized,    \* database._initialized
    tasks,          \* self.tasks: sequence of job task records
    callers,        \* per caller: the call it is in (start, stop, or a
                    \* Database method) and where it is suspended
    ended,          \* the call that ended last, and how
    ncalls,         \* calls made since Init
    snapshot        \* what get_status() returned, if the last step was a call of it

fetchVars == <<f_in, f_out, f_pc>>
batchVars == <<urls, max_concurrent, semaphore, waiters, tpc, calls, results,
               order, valid_results, bpc>>
\* the fields of the crawler and of its database, and the calls in progress
crawlerFields == <<enabled, running, session, closed, engine, disposed, made,
                   initialized, tasks, callers, ended, ncalls>>
crawlerVars == <<crawlerFields, snapshot>>
vars == <<fetchVars, batchVars, crawlerVars>>

(***************************************************************************)
(* Bounds of the model.                                                    *)
(***************************************************************************)
MaxUrls == 2
MaxK == 2
\* start()/stop() calls made in one run of the model
MaxCalls == 2
\* job tasks that may be alive at once
MaxLive == 6

(***************************************************************************)
(* Program constants.                                                      *)
(***************************************************************************)
\* CrawlerConfig.max_concurrent, the default of CRAWLER_MAX_CONCURRENT
DefaultMaxConcurrent == 5
\* the only status crawl_url accepts
HTTP_OK == 200

(***************************************************************************)
(* Python values and exceptions.                                           *)
(***************************************************************************)
\* None
PyNone == [py |-> "None", json |-> "-", content |-> "-", url |-> 0, status |-> 0]
\* the value response.json() parsed: a dict for a JSON object, a list for an
\* array, None for null
PyJson(kind, url) ==
    CASE kind = "object" -> [py |-> "dict", json |-> "object", content |-> "-",
                             url |-> url, status |-> 0]
      [] kind = "array"  -> [py |-> "list", json |-> "array", content |-> "-",
                             url |-> url, status |-> 0]
      [] OTHER           -> PyNone
\* {'content': text, 'url': url, 'status': response.status}
PyTextDict(text, url, status) ==
    [py |-> "dict", json |-> "-", content |-> text, url |-> url, status |-> status]

Return(v, lg) == [kind |-> "return", value |-> v, exc |-> "-", log |-> lg]
Raise(e) == [kind |-> "raise", value |-> PyNone, exc |-> e, log |-> "-"]
NotCalled == [kind |-> "pending", value |-> PyNone, exc |-> "-", log |-> "-"]

\* asyncio.CancelledError derives from BaseException, not from Exception
IsException(e) == e # "CancelledError"

(***************************************************************************)
(* The inputs of one fetch.                                                *)
(***************************************************************************)
SessionStates == {"none", "open", "closed"}
\* the state of the object self.session refers to
SessionState ==
    IF session = 0 THEN "none"
    ELSE IF session \in closed THEN "closed" ELSE "open"
NetEvents == {"response", "connect_error", "timeout", "cancelled"}
Statuses == {200, 201, 204, 404, 500}
ContentTypes == {"application/json", "Application/JSON; charset=utf-8",
                 "text/html", ""}
\* what reading the body gives; "cancelled": the caller's task is cancelled
\* while it is suspended in the read
Bodies == {"object", "array", "null", "garbage", "badbytes", "cancelled"}

Responses == [net : NetEvents, status : Statuses, ctype : ContentTypes,
              body : Bodies]

\* 'application/json' in content_type.lower()
HasApplicationJson(ctype) ==
    ctype \in {"application/json", "Application/JSON; charset=utf-8"}

\* self.session.get(url): None has no attribute get, a closed ClientSession
\* raises RuntimeError, the request itself may fail, time out or be cancelled
SessionGet(sess, resp) ==
    CASE sess = "none"               -> Raise("AttributeError")
      [] sess = "closed"             -> Raise("RuntimeError")
      [] resp.net = "connect_error"  -> Raise("ClientConnectorError")
      [] resp.net = "timeout"        -> Raise("TimeoutError")
      [] resp.net = "cancelled"      -> Raise("CancelledError")
      [] OTHER                       -> Return(PyNone, "-")

\* await response.json()
ResponseJson(url, resp) ==
    CASE resp.body = "cancelled" -> Raise("CancelledError")
      [] resp.body = "badbytes" -> Raise("UnicodeDecodeError")
      [] resp.body = "garbage"  -> Raise("JSONDecodeError")
      [] OTHER                  -> Return(PyJson(resp.body, url), "-")

\* await response.text()
ResponseText(resp) ==
    CASE resp.body = "cancelled" -> Raise("CancelledError")
      [] resp.body = "badbytes" -> Raise("UnicodeDecodeError")
      [] OTHER                  -> Return(PyNone, "-")

\* if response.status == 200
StatusAccepted_Any2xx(status) == status \in 200..299
StatusAccepted(status) == status = HTTP_OK

\* the else branch of the status test: logger.warning(...); return None
RejectStatus_KeepStatus(url, status) == Return(PyTextDict("-", url, status), "warning")
RejectStatus(url, status) == Return(PyNone, "warning")

\* the body of crawl_url's try block
CrawlUrlTry(sess, url, resp) ==
    LET got == SessionGet(sess, resp) IN
    IF got.kind = "raise" THEN got
    ELSE IF StatusAccepted(resp.status)
         THEN IF HasApplicationJson(resp.ctype)
              THEN ResponseJson(url, resp)
              ELSE LET text == ResponseText(resp) IN
                   IF text.kind = "raise" THEN text
                   ELSE Return(PyTextDict(resp.body, url, resp.status), "-")
         ELSE RejectStatus(url, resp.status)

\* (mutant) except aiohttp.ClientError only
CrawlUrlExcept_ClientErrorOnly(attempt) ==
    IF attempt.kind = "raise" /\ attempt.exc = "ClientConnectorError"
    THEN Return(PyNone, "error")
    ELSE attempt

\* except Exception as e: logger.error(...); return None
CrawlUrlExcept(attempt) ==
    IF attempt.kind = "raise" /\ IsException(attempt.exc)
    THEN Return(PyNone, "error")
    ELSE attempt

crawl_url(sess, url, resp) == CrawlUrlExcept(CrawlUrlTry(sess, url, resp))

\* crawl_url from the answer to its request on: the session was open when
\* the request was made
CrawlUrlAnswered(url, resp) == crawl_url("open", url, resp)

\* the request is answered with a status that crawl_url accepts: crawl_url
\* goes on to await response.json() or response.text()
ReadsBody(resp) == resp.net = "response" /\ StatusAccepted(resp.status)

(***************************************************************************)
(* The state DataCrawler.__init__ and Database.__init__ leave.             *)
(***************************************************************************)
Callers == {1, 2}
Idle == [op |-> "idle", pc |-> "-", upto |-> 0, obj |-> 0]
\* the caller is inside op, suspended at pc
Awaiting(op, pc, upto, obj) == [op |-> op, pc |-> pc, upto |-> upto, obj |-> obj]
\* no call has ended yet
NoneEnded == [op |-> "-", how |-> "-"]
\* the call of op that ended last: it returned or it raised
Ended(op, how) == [op |-> op, how |-> how]
\* get_status() has not been called
NoStatus == [called |-> FALSE, running |-> FALSE, active_tasks |-> 0,
             total_tasks |-> 0,
             settings |-> [enabled |-> FALSE, max_concurrent |-> 0]]

CrawlerConstructed ==
    /\ running = FALSE
    /\ session = 0
    /\ closed = {}
    /\ engine = 0
    /\ disposed = {}
    /\ made = [sessions |-> 0, engines |-> 0]
    /\ initialized = FALSE
    /\ tasks = <<>>
    /\ callers = [c \in Callers |-> Idle]
    /\ ended = NoneEnded
    /\ ncalls = 0
    /\ snapshot = NoStatus

\* the jobs _start_crawler_tasks registers, in its order
JobNames == <<"_crawl_example_api", "_crawl_rss_feeds", "_cleanup_old_data">>
Jobs == DOMAIN JobNames

\* the interval each job is registered with, in units of
\* settings.crawler.interval (3600 * 24 seconds are 24 default intervals)
IntervalOf(job) ==
    CASE job = 1 -> <<1, "interval">>
      [] job = 2 -> <<2, "interval">>
      [] OTHER   -> <<3600 * 24, "seconds">>

\* asyncio.create_task(periodic_wrapper()): the task has not run yet
\* (raised: the previous invocation of the body ended with an exception;
\* runs: the number of invocations of the body so far, modulo 2)
NewTask(job) ==
    [job |-> job, pc |-> "new", timer |-> <<>>, raised |-> FALSE, runs |-> 0]

\* task.done()
TaskDone(task) == task.pc \in {"done", "cancelled", "failed"}
Live == { t \in DOMAIN tasks : ~TaskDone(tasks[t]) }
Starting == { c \in Callers : callers[c].op = "start" }

\* the crawler as main.run_crawler leaves it: start() has returned, the
\* session is open, the database initialised, the three job tasks created
CrawlerStarted ==
    /\ enabled = TRUE
    /\ running = TRUE
    /\ session = 1
    /\ closed = {}
    /\ engine = 1
    /\ disposed = {}
    /\ made = [sessions |-> 1, engines |-> 1]
    /\ initialized = TRUE
    /\ tasks = [j \in Jobs |-> NewTask(j)]
    /\ callers = [c \in Callers |-> Idle]
    /\ ended = Ended("start", "ok")
    /\ ncalls = 0
    /\ snapshot = NoStatus

\* the crawler after that start() and a stop(): stop() has cancelled and
\* awaited the job tasks, closed the session and disposed the engine, and
\* keeps all three
CrawlerStopped ==
    /\ enabled = TRUE
    /\ running = FALSE
    /\ session = 1
    /\ closed = {1}
    /\ engine = 1
    /\ disposed = {1}
    /\ made = [sessions |-> 1, engines |-> 1]
    /\ initialized = TRUE
    /\ tasks = [j \in Jobs |-> [NewTask(j) EXCEPT !.pc = "cancelled"]]
    /\ callers = [c \in Callers |-> Idle]
    /\ ended = Ended("stop", "ok")
    /\ ncalls = 0
    /\ snapshot = NoStatus

\* the crawler when crawl_url or batch_crawl is called: never started
\* (self.session is None), started (open), or stopped (closed)
CrawlerInSessionState ==
    \/ enabled = TRUE /\ CrawlerConstructed
    \/ CrawlerStarted
    \/ CrawlerStopped

FetchIdle ==
    /\ f_in = [url |-> 0, sess |-> "-",
               resp |-> [net |-> "response", status |-> HTTP_OK,
                         ctype |-> "", body |-> "object"]]
    /\ f_out = NotCalled
    /\ f_pc = "idle"

BatchIdle ==
    /\ urls = <<>>
    /\ max_concurrent = [given |-> FALSE, val |-> 0]
    /\ semaphore = 0
    /\ waiters = <<>>
    /\ tpc = <<>>
    /\ calls = <<>>
    /\ results = <<>>
    /\ order = <<>>
    /\ valid_results = <<>>
    /\ bpc = "idle"

(***************************************************************************)
(* SpecBatch: one call of batch_crawl(urls, max_concurrent).              *)
(***************************************************************************)
\* what the network may answer to a fetch of the batch (a fetch of the batch
\* is cancelled only when the whole batch_crawl call is)
BatchResponses ==
    { r \in Responses :
        /\ r.net # "cancelled"
        /\ r.ctype \in {"application/json", "text/html"}
        /\ r.status \in {200, 201, 404}
        /\ r.body \in {"object", "array", "garbage"}
        /\ (r.net # "response" =>
              r.status = 200 /\ r.ctype = "text/html" /\ r.body = "garbage") }

Indices == 1..Len(urls)

\* (mutant) a limit of None is taken as a limit of one
Limit_NoneIsOne(arg) == IF arg.given THEN arg.val ELSE 1
\* if max_concurrent is None: max_concurrent = self.settings.crawler.max_concurrent
Limit(arg) == IF arg.given THEN arg.val ELSE DefaultMaxConcurrent

InFlight == { i \in DOMAIN tpc : tpc[i] = "fetching" }

BatchInit ==
    /\ CrawlerInSessionState
    /\ FetchIdle
    /\ \E n \in 0..MaxUrls : urls = [i \in 1..n |-> i]
    /\ max_concurrent \in
          {[given |-> FALSE, val |-> 0]} \cup [given : {TRUE}, val : 0..MaxK]
    /\ semaphore = 0
    /\ waiters = <<>>
    /\ tpc = <<>>
    /\ calls = <<>>
    /\ results = <<>>
    /\ order = <<>>
    /\ valid_results = <<>>
    /\ bpc = "call"

\* (mutant) any parsed JSON container passes the test
IsDict_AnyContainer(v) == v.py \in {"dict", "list"}
\* isinstance(result, dict)
IsDict(v) == v.py = "dict"

\* the loop over results: a dict is kept, anything else contributes nothing
\* (an exception is logged)
FilterValid_KeepAll(res) == res
FilterValid(res) == SelectSeq(res, IsDict)

\* results = await asyncio.gather(*tasks, return_exceptions=True): one entry
\* per task, in the order of the tasks, whatever the order of completion
GatherResults_Completion(res, ord) == [j \in 1..Len(ord) |-> res[ord[j]]]
GatherResults(res, ord) == res

\* (mutant) an empty batch takes a slot for itself before it returns
BatchCall_TakesSlot ==
    /\ bpc = "call"
    /\ semaphore' = IF urls = <<>> THEN Limit(max_concurrent) - 1
                                   ELSE Limit(max_concurrent)
    /\ waiters' = <<>>
    /\ tpc' = [i \in Indices |-> "created"]
    /\ calls' = [i \in Indices |-> 0]
    /\ results' = [i \in Indices |-> PyNone]
    /\ order' = <<>>
    /\ IF urls = <<>>
       THEN /\ bpc' = "returned"
            /\ valid_results' = <<>>
       ELSE /\ bpc' = "gather"
            /\ UNCHANGED valid_results
    /\ UNCHANGED <<urls, max_concurrent, fetchVars, crawlerVars>>
\* batch_crawl up to its await of gather: the limit is resolved, the
\* semaphore and one coroutine per url are created.  gather() of no
\* coroutine is already resolved and batch_crawl returns without suspending.
BatchCall ==
    /\ bpc = "call"
    /\ semaphore' = Limit(max_concurrent)
    /\ waiters' = <<>>
    /\ tpc' = [i \in Indices |-> "created"]
    /\ calls' = [i \in Indices |-> 0]
    /\ results' = [i \in Indices |-> PyNone]
    /\ order' = <<>>
    /\ IF urls = <<>>
       THEN /\ bpc' = "returned"
            /\ valid_results' = FilterValid(<<>>)
       ELSE /\ bpc' = "gather"
            /\ UNCHANGED valid_results
    /\ UNCHANGED <<urls, max_concurrent, fetchVars, crawlerVars>>

\* (mutant) only queued waiters make the semaphore locked
Locked_WaitersOnly == waiters # <<>>
\* Semaphore.locked(): no slot, or a waiter in the queue (none is cancelled)
Locked == semaphore = 0 \/ waiters # <<>>

\* a task that waits in Semaphore.acquire(): its future, pending or done
Waiter(i, done) == [task |-> i, done |-> done]

\* Semaphore._wake_up_next(): the first waiter whose future is not done is
\* given a slot (the counter is decremented on its behalf) and its future is
\* resolved; it stays in the queue until it resumes
WakeUpNext(sem, ws) ==
    LET pending == { p \in DOMAIN ws : ~ws[p].done } IN
    IF pending = {} THEN [value |-> sem, waiters |-> ws]
    ELSE LET first == CHOOSE p \in pending : \A q \in pending : p <= q IN
         [value |-> sem - 1, waiters |-> [ws EXCEPT ![first].done = TRUE]]

\* (mutant) leaving the async with block does not return the slot
Release_SlotLost(sem, ws) == [value |-> sem, waiters |-> ws]
\* Semaphore.release(): self._value += 1; self._wake_up_next()
Release(sem, ws) == WakeUpNext(sem + 1, ws)

\* Semaphore.acquire() of a task that finds the semaphore not locked
Acquire_NoDecrement(sem) == sem
Acquire(sem) == sem - 1

\* what gather(return_exceptions=True) records for a task whose crawl_url
\* call ended with out: the value returned, or the exception raised
TaskResult(out) ==
    IF out.kind = "return" THEN out.value
    ELSE [PyNone EXCEPT !.py = out.exc]

\* Task i holds a slot and calls crawl_url(url); sem and ws are the counter
\* and the queue as its acquire() leaves them.  With no usable session the
\* call raises inside crawl_url before any suspension: crawl_url returns
\* None, the slot is released and the task is done within the same step.
EnterFetch(i, sem, ws) ==
    /\ calls' = [calls EXCEPT ![i] = @ + 1]
    /\ IF SessionState = "open"
       THEN /\ tpc' = [tpc EXCEPT ![i] = "fetching"]
            /\ semaphore' = sem
            /\ waiters' = ws
            /\ UNCHANGED <<results, order>>
       ELSE /\ tpc' = [tpc EXCEPT ![i] = "done"]
            /\ results' = [results EXCEPT
                  ![i] = TaskResult(crawl_url(SessionState, urls[i],
                                      CHOOSE r \in BatchResponses : TRUE))]
            /\ order' = Append(order, i)
            /\ semaphore' = Release(sem, ws).value
            /\ waiters' = Release(sem, ws).waiters

\* the first step of crawl_with_semaphore(url): async with semaphore
TaskStart(i) ==
    /\ bpc = "gather"
    /\ tpc[i] = "created"
    /\ IF Locked
       THEN /\ tpc' = [tpc EXCEPT ![i] = "waiting"]
            /\ waiters' = Append(waiters, Waiter(i, FALSE))
            /\ UNCHANGED <<semaphore, calls, results, order>>
       ELSE EnterFetch(i, Acquire(semaphore), waiters)
    /\ UNCHANGED <<urls, max_concurrent, valid_results, bpc, fetchVars,
                   crawlerVars>>

\* acquire() after its await: the future is taken out of the queue, and
\* if self._value > 0: self._wake_up_next()
AfterWait(sem, ws) ==
    IF sem > 0 THEN WakeUpNext(sem, ws)
    ELSE [value |-> sem, waiters |-> ws]

\* a woken waiter resumes: it was given its slot by the release that woke
\* it, and goes on to its fetch
WaiterResume(i) ==
    /\ bpc = "gather"
    /\ waiters # <<>>
    /\ Head(waiters) = Waiter(i, TRUE)
    /\ EnterFetch(i, AfterWait(semaphore, Tail(waiters)).value,
                     AfterWait(semaphore, Tail(waiters)).waiters)
    /\ UNCHANGED <<urls, max_concurrent, valid_results, bpc, fetchVars,
                   crawlerVars>>

\* (mutant) a failed fetch cancels the tasks that have not finished
FetchEnd_CancelSiblings(i, resp) ==
    /\ bpc = "gather"
    /\ tpc[i] = "fetching"
    /\ LET out == CrawlUrlAnswered(urls[i], resp) IN
       /\ results' = [results EXCEPT ![i] = out.value]
       /\ tpc' = IF out.value = PyNone
                 THEN [j \in DOMAIN tpc |-> "done"]
                 ELSE [tpc EXCEPT ![i] = "done"]
       /\ waiters' = IF out.value = PyNone THEN <<>>
                     ELSE Release(semaphore, waiters).waiters
       /\ semaphore' = IF out.value = PyNone THEN semaphore + 1
                       ELSE Release(semaphore, waiters).value
    /\ order' = Append(order, i)
    /\ UNCHANGED <<urls, max_concurrent, calls, valid_results, bpc,
                   fetchVars, crawlerVars>>

\* the fetch of task i ends: crawl_url returns (or raises), the async with
\* block releases the slot, gather records the task's result
FetchEnd(i, resp) ==
    /\ bpc = "gather"
    /\ tpc[i] = "fetching"
    /\ results' = [results EXCEPT
          ![i] = TaskResult(CrawlUrlAnswered(urls[i], resp))]
    /\ tpc' = [tpc EXCEPT ![i] = "done"]
    /\ order' = Append(order, i)
    /\ semaphore' = Release(semaphore, waiters).value
    /\ waiters' = Release(semaphore, waiters).waiters
    /\ UNCHANGED <<urls, max_concurrent, calls, valid_results, bpc,
                   fetchVars, crawlerVars>>

\* gather resolves once every task is done; batch_crawl filters and returns
BatchReturn ==
    /\ bpc = "gather"
    /\ \A i \in Indices : tpc[i] = "done"
    /\ valid_results' = FilterValid(GatherResults(results, order))
    /\ bpc' = "returned"
    /\ UNCHANGED <<urls, max_concurrent, semaphore, waiters, tpc, calls,
                   results, order, fetchVars, crawlerVars>>


(***************************************************************************)
(* Spec: DataCrawler.start, DataCrawler.stop and the periodic job tasks.   *)
(* A coroutine runs without interruption from one await that suspends to   *)
(* the next; each action below is one such stretch.                        *)
(***************************************************************************)
\* the model follows the crawler from its construction, or from the state
\* run_crawler's start() leaves, through MaxCalls further calls
Init ==
    /\ \/ enabled \in BOOLEAN /\ CrawlerConstructed
       \/ CrawlerStarted
    /\ FetchIdle
    /\ BatchIdle

\* (mutant) _start_crawler_tasks makes a new list of its three tasks
StartCrawlerTasks_NewList(ts) == [j \in Jobs |-> NewTask(j)]
\* _start_crawler_tasks: three periodic tasks are created and appended
StartCrawlerTasks(ts) == ts \o [j \in Jobs |-> NewTask(j)]

\* caller c goes on to rec; the record Idle says that its call of op returned
Continue(c, op, rec) ==
    /\ callers' = [callers EXCEPT ![c] = rec]
    /\ ended' = IF rec = Idle THEN Ended(op, "ok") ELSE ended

\* the call of op by caller c ends with an exception
Raised(c, op) ==
    /\ callers' = [callers EXCEPT ![c] = Idle]
    /\ ended' = Ended(op, "raised")

\* a caller may make a call; of two idle callers the first makes it
MayCall(c) ==
    /\ callers[c].op = "idle"
    /\ ncalls < MaxCalls
    /\ \A d \in Callers : d < c => callers[d].op # "idle"

\* what may go wrong in initialize() before its first await
InitFails == {"-", "create_async_engine", "async_sessionmaker"}
\* self.engine = create_async_engine(...): the assignment is not reached
\* when the call raises
EngineAfter(fails) ==
    IF fails = "create_async_engine" THEN engine ELSE made.engines + 1
EnginesMadeAfter(fails) ==
    IF fails = "create_async_engine" THEN made.engines ELSE made.engines + 1

\* (mutant) start() without its test of settings.crawler.enabled
StartCall_IgnoresEnabled(c, fails) ==
    /\ MayCall(c)
    /\ Cardinality(Live) + Len(JobNames) * (Cardinality(Starting) + 1) <= MaxLive
    /\ ncalls' = ncalls + 1
    /\ running' = TRUE
    /\ session' = made.sessions + 1
    /\ IF initialized
       THEN /\ made' = [made EXCEPT !.sessions = @ + 1]
            /\ tasks' = StartCrawlerTasks(tasks)
            /\ Continue(c, "start", Idle)
            /\ UNCHANGED engine
       ELSE /\ made' = [sessions |-> made.sessions + 1,
                        engines |-> EnginesMadeAfter(fails)]
            /\ engine' = EngineAfter(fails)
            /\ IF fails = "-"
               THEN Continue(c, "start",
                             Awaiting("start", "test_connection", 0, 0))
               ELSE Raised(c, "start")
            /\ UNCHANGED tasks
    /\ UNCHANGED <<enabled, closed, disposed, initialized, fetchVars, batchVars>>
    /\ snapshot' = NoStatus
\* start() up to its first suspension.  Database.initialize returns at once
\* when the database is initialised, and _start_crawler_tasks never
\* suspends: start() then runs to its end in one stretch.  On a database
\* that is not initialised, initialize makes the engine and the session
\* factory (either may raise, and start() ends there) and suspends in
\* _test_connection.
StartCall(c, fails) ==
    /\ MayCall(c)
    /\ enabled =>
          Cardinality(Live) + Len(JobNames) * (Cardinality(Starting) + 1) <= MaxLive
    /\ ncalls' = ncalls + 1
    /\ IF ~enabled
       THEN /\ Continue(c, "start", Idle)
            /\ UNCHANGED <<running, session, made, engine, tasks>>
       ELSE /\ running' = TRUE
            /\ session' = made.sessions + 1
            /\ IF initialized
               THEN /\ made' = [made EXCEPT !.sessions = @ + 1]
                    /\ tasks' = StartCrawlerTasks(tasks)
                    /\ Continue(c, "start", Idle)
                    /\ UNCHANGED engine
               ELSE /\ made' = [sessions |-> made.sessions + 1,
                                engines |-> EnginesMadeAfter(fails)]
                    /\ engine' = EngineAfter(fails)
                    /\ IF fails = "-"
                       THEN Continue(c, "start",
                                     Awaiting("start", "test_connection", 0, 0))
                       ELSE Raised(c, "start")
                    /\ UNCHANGED tasks
    /\ UNCHANGED <<enabled, closed, disposed, initialized, fetchVars, batchVars>>
    /\ snapshot' = NoStatus

\* (mutant) start() rolls back when initialize raises: it clears the flag
\* and closes the session it opened
StartTestConnection_RollsBack(c, ok) ==
    /\ callers[c].op = "start"
    /\ callers[c].pc = "test_connection"
    /\ IF ok
       THEN /\ Continue(c, "start", Awaiting("start", "create_tables", 0, 0))
            /\ UNCHANGED <<running, closed>>
       ELSE /\ Raised(c, "start")
            /\ running' = FALSE
            /\ closed' = closed \cup {session}
    /\ UNCHANGED <<enabled, session, engine, disposed, made,
                   initialized, tasks, ncalls, fetchVars, batchVars>>
    /\ snapshot' = NoStatus
\* await self._test_connection() ends: it returns, or it raises and
\* initialize re-raises to the caller of start()
StartTestConnection(c, ok) ==
    /\ callers[c].op = "start"
    /\ callers[c].pc = "test_connection"
    /\ IF ok
       THEN Continue(c, "start", Awaiting("start", "create_tables", 0, 0))
       ELSE Raised(c, "start")
    /\ UNCHANGED <<enabled, running, session, closed, engine, disposed, made,
                   initialized, tasks, ncalls, fetchVars, batchVars>>
    /\ snapshot' = NoStatus

\* await self._create_tables() ends: on success the database is marked
\* initialised and start() goes on to create its tasks and returns
StartCreateTables(c, ok) ==
    /\ callers[c].op = "start"
    /\ callers[c].pc = "create_tables"
    /\ IF ok
       THEN /\ initialized' = TRUE
            /\ tasks' = StartCrawlerTasks(tasks)
            /\ Continue(c, "start", Idle)
       ELSE /\ Raised(c, "start")
            /\ UNCHANGED <<initialized, tasks>>
    /\ UNCHANGED <<enabled, running, session, closed, engine, disposed, made,
                   ncalls, fetchVars, batchVars>>
    /\ snapshot' = NoStatus

\* (mutant) stop() clears the flag and leaves the tasks to see it
CancelAll_FlagOnly(ts) == ts
\* task.cancel() on every task that is not done: the CancelledError is
\* thrown into the task at its next step
CancelAll(ts) ==
    [t \in DOMAIN ts |->
        IF TaskDone(ts[t]) THEN ts[t]
        ELSE [ts[t] EXCEPT !.pc = "cancelling", !.timer = <<>>, !.raised = FALSE,
                           !.runs = 0]]

\* how an awaited call of a library (ClientSession.close, AsyncEngine.dispose)
\* goes on once it is made: it returns without suspending, it suspends, or
\* it raises.  The object is marked closed (disposed) within the stretch
\* that makes the call.
LibraryCalls == {"returns", "suspends", "raises"}

\* await self.database.close() as part of a call of op: if self.engine:
\* await self.engine.dispose(); after it the call of op returns
DatabaseClose(c, op, hd) ==
    IF engine = 0
    THEN /\ Continue(c, op, Idle)
         /\ UNCHANGED disposed
    ELSE IF hd = "raises"
    THEN /\ Raised(c, op)
         /\ UNCHANGED disposed
    ELSE /\ disposed' = disposed \cup {engine}
         /\ Continue(c, op, IF hd = "suspends"
                            THEN Awaiting(op, "dispose", 0, engine)
                            ELSE Idle)

\* stop() from "Close HTTP session" on: if self.session: await
\* self.session.close(), then the database is closed; closing a closed
\* session returns at once
StopAtSession(c, hs, hd) ==
    IF session = 0 \/ session \in closed
    THEN /\ DatabaseClose(c, "stop", hd)
         /\ UNCHANGED closed
    ELSE IF hs = "raises"
    THEN /\ Raised(c, "stop")
         /\ UNCHANGED <<closed, disposed>>
    ELSE IF hs = "suspends"
    THEN /\ closed' = closed \cup {session}
         /\ Continue(c, "stop", Awaiting("stop", "close_session", 0, session))
         /\ UNCHANGED disposed
    ELSE /\ closed' = closed \cup {session}
         /\ DatabaseClose(c, "stop", hd)

\* stop() up to its first suspension: the flag is cleared and the tasks
\* are cancelled; if self.tasks: await gather; with no task stop() goes on
\* to close the session
StopCall(c, hs, hd) ==
    /\ MayCall(c)
    /\ ncalls' = ncalls + 1
    /\ running' = FALSE
    /\ tasks' = CancelAll(tasks)
    /\ IF tasks = <<>>
       THEN StopAtSession(c, hs, hd)
       ELSE /\ Continue(c, "stop", Awaiting("stop", "gather", Len(tasks), 0))
            /\ UNCHANGED <<closed, disposed>>
    /\ UNCHANGED <<enabled, session, engine, made, initialized, fetchVars,
                   batchVars>>
    /\ snapshot' = NoStatus

\* gather(*self.tasks, return_exceptions=True) resolves: every task that
\* was in the list when stop() called gather is done; stop() goes on to
\* close the session
StopGathered(c, hs, hd) ==
    /\ callers[c].op = "stop"
    /\ callers[c].pc = "gather"
    /\ \A t \in 1..callers[c].upto : TaskDone(tasks[t])
    /\ StopAtSession(c, hs, hd)
    /\ UNCHANGED <<enabled, running, session, engine, made, initialized,
                   tasks, ncalls, fetchVars, batchVars>>
    /\ snapshot' = NoStatus

\* await self.session.close() ends after a suspension: stop() goes on to
\* close the database, or close raised and stop() ends there
StopSessionClosed(c, ok, hd) ==
    /\ callers[c].op = "stop"
    /\ callers[c].pc = "close_session"
    /\ IF ok
       THEN DatabaseClose(c, "stop", hd)
       ELSE /\ Raised(c, "stop")
            /\ UNCHANGED disposed
    /\ UNCHANGED <<enabled, running, session, closed, engine, made,
                   initialized, tasks, ncalls, fetchVars, batchVars>>
    /\ snapshot' = NoStatus

\* await self.engine.dispose() ends after a suspension, and stop() with it
StopDisposed(c, ok) ==
    /\ callers[c].op = "stop"
    /\ callers[c].pc = "dispose"
    /\ IF ok THEN Continue(c, "stop", Idle) ELSE Raised(c, "stop")
    /\ UNCHANGED <<enabled, running, session, closed, engine, disposed, made,
                   initialized, tasks, ncalls, fetchVars, batchVars>>
    /\ snapshot' = NoStatus

\* the task is about to run the loop test of periodic_wrapper: it has just
\* been created, or it is in asyncio.sleep(interval) and resumes when that
\* interval has elapsed
\* (mutant) a body in progress blocks the event loop: no other task resumes
AtLoopTest_BlockedByBody(task) ==
    /\ task.pc \in {"new", "sleep"}
    /\ \A u \in DOMAIN tasks : tasks[u].pc # "body"
AtLoopTest(task) == task.pc \in {"new", "sleep"}

\* the first stretch of an iteration of periodic_wrapper
\* (mutant) the wrapper sleeps before it invokes the body
EnterLoop_SleepFirst(task) ==
    IF task.pc = "new"
    THEN [task EXCEPT !.pc = "sleep", !.timer = IntervalOf(task.job)]
    ELSE [task EXCEPT !.pc = "body", !.timer = <<>>, !.runs = 1 - @]
\* while self.running: await coro_func()
EnterLoop(task) == [task EXCEPT !.pc = "body", !.timer = <<>>, !.runs = 1 - @]

\* (mutant) no except clause: the exception ends the task
AfterBody_NoExcept(task, outcome) ==
    IF outcome = "error"
    THEN [task EXCEPT !.pc = "failed", !.raised = TRUE]
    ELSE [task EXCEPT !.pc = "sleep", !.timer = IntervalOf(task.job),
                      !.raised = FALSE]
\* the body returned, or raised an Exception that the wrapper logs and
\* drops; either way the wrapper goes on to await asyncio.sleep(interval)
AfterBody(task, outcome) ==
    [task EXCEPT !.pc = "sleep", !.timer = IntervalOf(task.job),
                 !.raised = (outcome = "error")]

\* whether an invocation of the task's body suspends.  _crawl_example_api
\* and _crawl_rss_feeds await a request on self.session: on None and on a
\* closed session the request fails at once, the body catches the error and
\* returns.  _cleanup_old_data has no await.
BodySuspends(task) == task.job \in {1, 2} /\ SessionState = "open"

\* the task is resumed (for the first time, or because its sleep is over)
\* and tests self.running: the loop and the task end, or the body is
\* invoked; a body that does not suspend returns within the same stretch
\* and the wrapper goes on to its sleep
LoopTest(t) ==
    /\ t \in DOMAIN tasks
    /\ AtLoopTest(tasks[t])
    /\ tasks' = [tasks EXCEPT
          ![t] = IF ~running
                 THEN [@ EXCEPT !.pc = "done", !.timer = <<>>, !.raised = FALSE,
                                !.runs = 0]
                 ELSE IF BodySuspends(@) THEN EnterLoop(@)
                 ELSE AfterBody(EnterLoop(@), "ok")]
    /\ UNCHANGED <<enabled, running, session, closed, engine, disposed, made,
                   initialized, callers, ended, ncalls, fetchVars, batchVars>>
    /\ snapshot' = NoStatus

\* await coro_func() ends for a body that was suspended
BodyEnd(t, outcome) ==
    /\ t \in DOMAIN tasks
    /\ tasks[t].pc = "body"
    /\ tasks' = [tasks EXCEPT ![t] = AfterBody(@, outcome)]
    /\ UNCHANGED <<enabled, running, session, closed, engine, disposed, made,
                   initialized, callers, ended, ncalls, fetchVars, batchVars>>
    /\ snapshot' = NoStatus

\* (mutant) the wrapper catches the CancelledError as it catches an
\* Exception, and goes on to its sleep
TaskCancelled_Swallowed(t) ==
    /\ t \in DOMAIN tasks
    /\ tasks[t].pc = "cancelling"
    /\ tasks' = [tasks EXCEPT ![t] = [@ EXCEPT !.pc = "sleep",
                                              !.timer = IntervalOf(tasks[t].job)]]
    /\ UNCHANGED <<enabled, running, session, closed, engine, disposed, made,
                   initialized, callers, ended, ncalls, fetchVars, batchVars>>
    /\ snapshot' = NoStatus
\* the CancelledError reaches the task: neither the body's nor the
\* wrapper's except Exception catches it, the task ends cancelled
TaskCancelled(t) ==
    /\ t \in DOMAIN tasks
    /\ tasks[t].pc = "cancelling"
    /\ tasks' = [tasks EXCEPT ![t] = [@ EXCEPT !.pc = "cancelled"]]
    /\ UNCHANGED <<enabled, running, session, closed, engine, disposed, made,
                   initialized, callers, ended, ncalls, fetchVars, batchVars>>
    /\ snapshot' = NoStatus

TaskIds == 1..(Len(JobNames) * (MaxCalls + 1))

Next ==
    \/ \E c \in Callers, fails \in InitFails : StartCall(c, fails)
    \/ \E c \in Callers, ok \in BOOLEAN : StartTestConnection(c, ok)
    \/ \E c \in Callers, ok \in BOOLEAN : StartCreateTables(c, ok)
    \/ \E c \in Callers, hs, hd \in LibraryCalls : StopCall(c, hs, hd)
    \/ \E c \in Callers, hs, hd \in LibraryCalls : StopGathered(c, hs, hd)
    \/ \E c \in Callers, ok \in BOOLEAN, hd \in LibraryCalls :
          StopSessionClosed(c, ok, hd)
    \/ \E c \in Callers, ok \in BOOLEAN : StopDisposed(c, ok)
    \/ \E t \in TaskIds : LoopTest(t)
    \/ \E t \in TaskIds, outcome \in {"ok", "error"} : BodyEnd(t, outcome)
    \/ \E t \in TaskIds : TaskCancelled(t)

Spec == Init /\ [][Next]_vars

\* The event loop runs every task that is ready: a task that was created,
\* whose sleep is over or that was cancelled is resumed, and so is a stop()
\* whose gather has resolved.  Nothing forces I/O to end: a body, a
\* database call or the close of a session may stay suspended.
LoopFairness ==
    /\ \A t \in TaskIds : WF_vars(LoopTest(t)) /\ WF_vars(TaskCancelled(t))
    /\ \A c \in Callers :
          WF_vars(\E hs, hd \in LibraryCalls : StopGathered(c, hs, hd))

\* the job tasks of one start() at a time: a start() may follow a stop()
\* once the tasks that stop() cancelled are done
OneGeneration == Cardinality(Live) <= Len(JobNames)
LiveNext ==
    \/ \E c \in Callers, fails \in InitFails :
          StartCall(c, fails) /\ OneGeneration'
    \/ \E c \in Callers, ok \in BOOLEAN : StartTestConnection(c, ok)
    \/ \E c \in Callers, ok \in BOOLEAN :
          StartCreateTables(c, ok) /\ OneGeneration'
    \/ \E c \in Callers, hs, hd \in LibraryCalls : StopCall(c, hs, hd)
    \/ \E c \in Callers, hs, hd \in LibraryCalls : StopGathered(c, hs, hd)
    \/ \E c \in Callers, ok \in BOOLEAN, hd \in LibraryCalls :
          StopSessionClosed(c, ok, hd)
    \/ \E c \in Callers, ok \in BOOLEAN : StopDisposed(c, ok)
    \/ \E t \in TaskIds : LoopTest(t)
    \/ \E t \in TaskIds, outcome \in {"ok", "error"} : BodyEnd(t, outcome)
    \/ \E t \in TaskIds : TaskCancelled(t)

\* the crawler under the event loop's fairness, one generation of job tasks
\* alive at a time
LiveSpec == Init /\ [][LiveNext]_vars /\ LoopFairness

\* The closes that stop() awaits end: a session.close() or an
\* engine.dispose() that suspended is resumed (it returns or it raises).
CloseFairness ==
    \A c \in Callers :
        /\ WF_vars(\E ok \in BOOLEAN, hd \in LibraryCalls :
                      StopSessionClosed(c, ok, hd))
        /\ WF_vars(\E ok \in BOOLEAN : StopDisposed(c, ok))

\* LiveSpec with closes that end
LiveStop == Init /\ [][LiveNext]_vars /\ LoopFairness /\ CloseFairness

(***************************************************************************)
(* SpecBatch: the steps of batch_crawl and of its tasks, with the job      *)
(* tasks of a started crawler and stop() running in between.               *)
(***************************************************************************)
BatchNext ==
    \/ BatchCall
    \/ \E i \in Indices : TaskStart(i)
    \/ \E i \in Indices : WaiterResume(i)
    \/ \E i \in Indices, resp \in BatchResponses : FetchEnd(i, resp)
    \/ BatchReturn
    \/ \E c \in Callers, hs, hd \in LibraryCalls : StopCall(c, hs, hd)
    \/ \E c \in Callers, hs, hd \in LibraryCalls : StopGathered(c, hs, hd)
    \/ \E c \in Callers, ok \in BOOLEAN, hd \in LibraryCalls :
          StopSessionClosed(c, ok, hd)
    \/ \E c \in Callers, ok \in BOOLEAN : StopDisposed(c, ok)
    \/ \E t \in TaskIds : LoopTest(t)
    \/ \E t \in TaskIds, outcome \in {"ok", "error"} : BodyEnd(t, outcome)
    \/ \E t \in TaskIds : TaskCancelled(t)

SpecBatch == BatchInit /\ [][BatchNext]_vars

\* The event loop goes on running tasks that are ready: while a created
\* task has not started one of them starts, a woken waiter resumes, and
\* gather's caller resumes once gather has resolved.  While crawl_url calls
\* are in progress one of them ends (aiohttp bounds a request by its
\* timeout).
BatchFairness ==
    /\ WF_vars(\E i \in Indices : TaskStart(i))
    /\ WF_vars(\E i \in Indices : WaiterResume(i))
    /\ WF_vars(\E i \in Indices, resp \in BatchResponses : FetchEnd(i, resp))
    /\ WF_vars(BatchReturn)

\* LiveBatch: the behaviours of SpecBatch in which no ready step waits
\* forever
LiveBatch == BatchInit /\ [][BatchNext]_vars /\ BatchFairness

(***************************************************************************)
(* SpecFetch: one call of crawl_url, on a crawler that was never started,  *)
(* is started or was stopped, and that may be stopped while the call is    *)
(* suspended.                                                              *)
(***************************************************************************)
FetchInit ==
    /\ CrawlerInSessionState
    /\ BatchIdle
    /\ f_in \in [url : {1}, sess : {"-"}, resp : Responses]
    /\ f_out = NotCalled
    /\ f_pc = "call"

\* crawl_url up to its first suspension: on an open session it awaits the
\* request; self.session.get fails at once on None and on a closed session,
\* and crawl_url returns None without suspending
CrawlUrlCall ==
    /\ f_pc = "call"
    /\ f_in' = [f_in EXCEPT !.sess = SessionState]
    /\ IF SessionState = "open"
       THEN /\ f_pc' = "request"
            /\ UNCHANGED f_out
       ELSE /\ f_pc' = "done"
            /\ f_out' = crawl_url(SessionState, f_in.url, f_in.resp)
    /\ UNCHANGED <<batchVars, crawlerVars>>

\* the request ends: with an accepted status crawl_url awaits the body,
\* otherwise (another status, a network error, a cancellation) it ends
CrawlUrlResponse ==
    /\ f_pc = "request"
    /\ IF ReadsBody(f_in.resp)
       THEN /\ f_pc' = "body"
            /\ UNCHANGED f_out
       ELSE /\ f_pc' = "done"
            /\ f_out' = CrawlUrlAnswered(f_in.url, f_in.resp)
    /\ UNCHANGED <<f_in, batchVars, crawlerVars>>

\* await response.json() / response.text() ends, with the body, with a
\* decoding error or with the cancellation of the caller, and crawl_url
\* with it
CrawlUrlBody ==
    /\ f_pc = "body"
    /\ f_pc' = "done"
    /\ f_out' = CrawlUrlAnswered(f_in.url, f_in.resp)
    /\ UNCHANGED <<f_in, batchVars, crawlerVars>>

FetchNext ==
    \/ CrawlUrlCall
    \/ CrawlUrlResponse
    \/ CrawlUrlBody
    \/ \E c \in Callers, hs, hd \in LibraryCalls : StopCall(c, hs, hd)
    \/ \E c \in Callers, hs, hd \in LibraryCalls : StopGathered(c, hs, hd)
    \/ \E c \in Callers, ok \in BOOLEAN, hd \in LibraryCalls :
          StopSessionClosed(c, ok, hd)
    \/ \E c \in Callers, ok \in BOOLEAN : StopDisposed(c, ok)
    \/ \E t \in TaskIds : LoopTest(t)
    \/ \E t \in TaskIds, outcome \in {"ok", "error"} : BodyEnd(t, outcome)
    \/ \E t \in TaskIds : TaskCancelled(t)

SpecFetch == FetchInit /\ [][FetchNext]_vars

(***************************************************************************)
(* SpecDatabase: a Database used through its own methods initialize(),     *)
(* get_session() and close(), as web/app.py and bot/bot.py use theirs.     *)
(***************************************************************************)
\* Database.__init__, or a Database that initialize() has set up
DatabaseInit ==
    /\ enabled = TRUE
    /\ running = FALSE
    /\ session = 0
    /\ closed = {}
    /\ \/ engine = 0 /\ made = [sessions |-> 0, engines |-> 0]
             /\ initialized = FALSE /\ ended = NoneEnded
       \/ engine = 1 /\ made = [sessions |-> 0, engines |-> 1]
             /\ initialized = TRUE /\ ended = Ended("initialize", "ok")
    /\ disposed = {}
    /\ tasks = <<>>
    /\ callers = [c \in Callers |-> Idle]
    /\ ncalls = 0
    /\ snapshot = NoStatus
    /\ FetchIdle
    /\ BatchIdle

\* where a call of op is once initialize() has returned: initialize() has
\* ended; get_session() yields a session of the factory and its with-block
\* runs
AfterInitialize(op) ==
    IF op = "get_session" THEN Awaiting(op, "session", 0, 0) ELSE Idle

\* initialize() up to its first suspension, entered by a call of op: it
\* returns at once on an initialised database; otherwise it makes the engine
\* and the session factory and suspends in _test_connection
InitializeEnter(c, op, fails) ==
    IF initialized
    THEN /\ Continue(c, op, AfterInitialize(op))
         /\ UNCHANGED <<engine, made>>
    ELSE /\ made' = [made EXCEPT !.engines = EnginesMadeAfter(fails)]
         /\ engine' = EngineAfter(fails)
         /\ IF fails = "-"
            THEN Continue(c, op, Awaiting(op, "test_connection", 0, 0))
            ELSE Raised(c, op)

\* await database.initialize()
InitializeCall(c, fails) ==
    /\ MayCall(c)
    /\ ncalls' = ncalls + 1
    /\ InitializeEnter(c, "initialize", fails)
    /\ UNCHANGED <<enabled, running, session, closed, disposed, initialized,
                   tasks, fetchVars, batchVars>>
    /\ snapshot' = NoStatus

\* async with database.get_session(): if not self._initialized: await
\* self.initialize(); then the session of the factory is yielded
GetSessionCall(c, fails) ==
    /\ MayCall(c)
    /\ ncalls' = ncalls + 1
    /\ InitializeEnter(c, "get_session", fails)
    /\ UNCHANGED <<enabled, running, session, closed, disposed, initialized,
                   tasks, fetchVars, batchVars>>
    /\ snapshot' = NoStatus

\* the operations that enter initialize() on the Database itself
DatabaseOps == {"initialize", "get_session"}

\* await self._test_connection() ends
InitializeTestConnection(c, ok) ==
    /\ callers[c].op \in DatabaseOps
    /\ callers[c].pc = "test_connection"
    /\ IF ok
       THEN Continue(c, callers[c].op,
                     Awaiting(callers[c].op, "create_tables", 0, 0))
       ELSE Raised(c, callers[c].op)
    /\ UNCHANGED <<enabled, running, session, closed, engine, disposed, made,
                   initialized, tasks, ncalls, fetchVars, batchVars>>
    /\ snapshot' = NoStatus

\* await self._create_tables() ends: on success the database is marked
\* initialised and initialize() returns (get_session goes on to yield)
InitializeCreateTables(c, ok) ==
    /\ callers[c].op \in DatabaseOps
    /\ callers[c].pc = "create_tables"
    /\ IF ok
       THEN /\ initialized' = TRUE
            /\ Continue(c, callers[c].op, AfterInitialize(callers[c].op))
       ELSE /\ Raised(c, callers[c].op)
            /\ UNCHANGED initialized
    /\ UNCHANGED <<enabled, running, session, closed, engine, disposed, made,
                   tasks, ncalls, fetchVars, batchVars>>
    /\ snapshot' = NoStatus

\* the with-block of get_session() ends: an exception of the block is
\* re-raised after session.rollback(); the session is closed either way
GetSessionExit(c, ok) ==
    /\ callers[c].op = "get_session"
    /\ callers[c].pc = "session"
    /\ IF ok THEN Continue(c, "get_session", Idle)
             ELSE Raised(c, "get_session")
    /\ UNCHANGED <<enabled, running, session, closed, engine, disposed, made,
                   initialized, tasks, ncalls, fetchVars, batchVars>>
    /\ snapshot' = NoStatus

\* await database.close(): if self.engine: await self.engine.dispose()
CloseCall(c, hd) ==
    /\ MayCall(c)
    /\ ncalls' = ncalls + 1
    /\ DatabaseClose(c, "close", hd)
    /\ UNCHANGED <<enabled, running, session, closed, engine, made,
                   initialized, tasks, fetchVars, batchVars>>
    /\ snapshot' = NoStatus

\* await self.engine.dispose() ends after a suspension, and close() with it
CloseDisposed(c, ok) ==
    /\ callers[c].op = "close"
    /\ callers[c].pc = "dispose"
    /\ IF ok THEN Continue(c, "close", Idle) ELSE Raised(c, "close")
    /\ UNCHANGED <<enabled, running, session, closed, engine, disposed, made,
                   initialized, tasks, ncalls, fetchVars, batchVars>>
    /\ snapshot' = NoStatus

DatabaseNext ==
    \/ \E c \in Callers, fails \in InitFails : InitializeCall(c, fails)
    \/ \E c \in Callers, fails \in InitFails : GetSessionCall(c, fails)
    \/ \E c \in Callers, ok \in BOOLEAN : InitializeTestConnection(c, ok)
    \/ \E c \in Callers, ok \in BOOLEAN : InitializeCreateTables(c, ok)
    \/ \E c \in Callers, ok \in BOOLEAN : GetSessionExit(c, ok)
    \/ \E c \in Callers, hd \in LibraryCalls : CloseCall(c, hd)
    \/ \E c \in Callers, ok \in BOOLEAN : CloseDisposed(c, ok)

SpecDatabase == DatabaseInit /\ [][DatabaseNext]_vars

(***************************************************************************)
(* SpecStatus: Spec with get_status() called at any point between two      *)
(* stretches of start(), stop() and the job tasks.                         *)
(***************************************************************************)
\* (mutant) every task of self.tasks is counted, finished or not
get_status_CountsAll ==
    [called |-> TRUE,
     running |-> running,
     active_tasks |-> Len(tasks),
     total_tasks |-> Len(tasks),
     settings |-> [enabled |-> enabled, max_concurrent |-> DefaultMaxConcurrent]]
\* the dict get_status builds: it reads fields only and has no await
get_status ==
    [called |-> TRUE,
     running |-> running,
     active_tasks |-> Cardinality({ t \in DOMAIN tasks : ~TaskDone(tasks[t]) }),
     total_tasks |-> Len(tasks),
     settings |-> [enabled |-> enabled, max_concurrent |-> DefaultMaxConcurrent]]

\* a call of get_status(): it runs to its end in one stretch
GetStatusCall ==
    /\ snapshot' = get_status
    /\ UNCHANGED <<crawlerFields, fetchVars, batchVars>>

StatusNext ==
    \/ Next
    \/ GetStatusCall

SpecStatus == Init /\ [][StatusNext]_vars

(***************************************************************************)
(* Claims about batch_crawl (SpecBatch).                                   *)
(***************************************************************************)
Fetched == { i \in DOMAIN tpc : tpc[i] = "done" }

\* C1: with a limit k >= 1 the number of crawl_url calls that have started
\* and not finished never exceeds k, in every interleaving of the tasks.
C1_InFlightAtMostLimit ==
    (bpc \in {"gather", "returned"} /\ Limit(max_concurrent) >= 1)
        => Cardinality(InFlight) <= Limit(max_concurrent)

\* every slot is taken and a task waits for one
C1_Witness ==
    /\ bpc = "gather"
    /\ Limit(max_concurrent) >= 1
    /\ Cardinality(InFlight) = Limit(max_concurrent)
    /\ waiters # <<>>

\* C2 as stated: batch_crawl over n identifiers returns exactly n outcomes,
\* a failed identifier keeping its slot.
C2_Original_OneOutcomePerIdentifier ==
    bpc = "returned" => Len(valid_results) = Len(urls)

\* C2 amended: batch_crawl returns one entry per identifier whose fetch
\* returned a dict and none for the others, so at most n entries.
C2_OneEntryPerDictResult ==
    bpc = "returned" =>
        /\ Len(valid_results) = Cardinality({ i \in DOMAIN results : IsDict(results[i]) })
        /\ Len(valid_results) <= Len(urls)
        /\ \A j \in DOMAIN valid_results : IsDict(valid_results[j])

\* [A, B] with B failing: one entry is returned
C2_Witness ==
    /\ bpc = "returned"
    /\ Len(urls) = 2
    /\ IsDict(results[1]) /\ results[2] = PyNone
    /\ calls[2] = 1
    /\ Len(valid_results) = 1

\* C3: the returned outcomes are in the relative order of their identifiers
\* in the input, whatever the order in which the fetches completed.
C3_OrderPreserved ==
    bpc = "returned" =>
        \A a, b \in DOMAIN valid_results :
            a < b => valid_results[a].url < valid_results[b].url

\* two fetches completed in the reverse of the input order, both kept
C3_Witness ==
    /\ bpc = "returned"
    /\ Len(valid_results) >= 2
    /\ \E a, b \in DOMAIN order :
          /\ a < b /\ order[a] > order[b]
          /\ IsDict(results[order[a]]) /\ IsDict(results[order[b]])

\* C4: crawl_url is called exactly once for every identifier, also when the
\* fetches of other identifiers fail: never twice, once for every finished
\* task, and for every identifier by the time batch_crawl returns.
C4_EveryIdentifierAttemptedOnce ==
    /\ \A i \in DOMAIN calls : calls[i] <= 1
    /\ \A i \in Fetched : calls[i] = 1
    /\ bpc = "returned" => \A i \in 1..Len(urls) : calls[i] = 1

\* the first fetch to complete failed and a sibling was attempted after it
C4_Witness ==
    /\ bpc = "returned"
    /\ Len(urls) >= 2
    /\ SessionState = "open"
    /\ results[order[1]] = PyNone
    /\ \A i \in 1..Len(urls) : calls[i] = 1
    /\ \E i \in 1..Len(urls) : IsDict(results[i])

(***************************************************************************)
(* Claims about crawl_url (SpecFetch).                                     *)
(***************************************************************************)
Called == f_pc = "done"
\* the call was made on an open session and its request was answered
Answered == f_in.sess = "open" /\ f_in.resp.net = "response"
Is2xx(status) == status \in 200..299
\* the body can be decoded the way the content type asks for
Decodable(resp) ==
    IF HasApplicationJson(resp.ctype)
    THEN resp.body \in {"object", "array", "null"}
    ELSE resp.body \notin {"badbytes", "cancelled"}
\* the caller's task was cancelled while crawl_url was suspended at the
\* request or at the body read
Cancelled ==
    \/ f_in.resp.net = "cancelled"
    \/ (f_in.sess = "open" /\ ReadsBody(f_in.resp)
        /\ f_in.resp.body = "cancelled")
\* a request that could not complete, or a response that could not be read
HardFailed ==
    \/ f_in.sess # "open"
    \/ f_in.resp.net \in {"connect_error", "timeout"}
    \/ (f_in.resp.net = "response" /\ f_in.resp.status = 200
        /\ ~Decodable(f_in.resp))
\* the remote answered with a non-2xx status
SoftFailed == Answered /\ ~Is2xx(f_in.resp.status)

\* C5: a non-success status, a network error, a timeout, a malformed body
\* and a call with no open session all end in a returned value.
C5_NeverRaises ==
    (Called /\ ~Cancelled) => f_out.kind = "return"

\* a call with no session returned None
C5_Witness ==
    /\ Called
    /\ f_in.sess = "none"
    /\ f_out = Return(PyNone, "error")

\* C6 as stated: a non-2xx status yields an outcome that carries the status
\* code, which tells it from the outcome of a timeout or connection failure.
C6_Original_SoftFailureCarriesStatus ==
    (Called /\ Answered /\ ~Is2xx(f_in.resp.status))
        => /\ f_out.kind = "return"
           /\ f_out.value.status = f_in.resp.status

\* C6 amended: a non-2xx status, a timeout, a connection failure and a
\* malformed body all make crawl_url return None, which carries neither a
\* status nor an error; the two kinds differ only in the log entry.
C6_FailuresReturnNone ==
    Called =>
        /\ SoftFailed => f_out = Return(PyNone, "warning")
        /\ (HardFailed /\ ~Cancelled)
               => f_out = Return(PyNone, "error")

\* a 404 was answered and None came back
C6_Witness ==
    /\ Called
    /\ Answered
    /\ f_in.resp.status = 404
    /\ f_out.value = PyNone

\* what a successful fetch returns: the parsed value for a JSON content
\* type, else the text with the url and the status
Decoded(url, resp) ==
    IF HasApplicationJson(resp.ctype)
    THEN PyJson(resp.body, url)
    ELSE PyTextDict(resp.body, url, resp.status)

\* C7 as stated: every 2xx response is a success of crawl_url.
C7_Original_Every2xxSucceeds ==
    (Called /\ Answered /\ Is2xx(f_in.resp.status) /\ Decodable(f_in.resp))
        => f_out = Return(Decoded(f_in.url, f_in.resp), "-")

\* C7 amended: only status 200 is a success (the parsed value for a JSON
\* content type, else the text with the url and the status); every other
\* status, 201 to 299 included, makes crawl_url return None.
C7_Only200Succeeds ==
    (Called /\ Answered) =>
        /\ (f_in.resp.status = 200 /\ Decodable(f_in.resp))
               => f_out = Return(Decoded(f_in.url, f_in.resp), "-")
        /\ f_in.resp.status # 200 => f_out = Return(PyNone, "warning")

\* a 201 with a readable JSON object was answered and None came back
C7_Witness ==
    /\ Called
    /\ Answered
    /\ f_in.resp.status = 201
    /\ HasApplicationJson(f_in.resp.ctype)
    /\ f_in.resp.body = "object"
    /\ f_out.value = PyNone

(***************************************************************************)
(* Claims about the periodic job tasks (Spec, LiveSpec).                   *)
(***************************************************************************)
Exists(t) == t \in DOMAIN tasks
\* the previous invocation of task t's body raised and the next has not begun
FailedLast(t) == Exists(t) /\ tasks[t].raised /\ tasks[t].pc # "body"
\* the body of task t was invoked after an invocation that raised
InvokedAfterFailure(t) == Exists(t) /\ tasks[t].raised /\ tasks[t].pc = "body"

\* C8: a body that raises does not end its job's cycle: the error is dropped,
\* the job sleeps its interval, and for as long as the crawler is running
\* (and has not cancelled the job) the body is invoked again.
C8_FailingBodyInvokedAgain ==
    /\ [][\A t \in DOMAIN tasks :
            (tasks[t].pc = "body" /\ tasks'[t].pc # "body" /\ tasks'[t].raised)
                => /\ tasks'[t].pc = "sleep"
                   /\ tasks'[t].timer = IntervalOf(tasks[t].job)]_vars
    /\ \A t \in TaskIds : []<>(~(running /\ FailedLast(t)))

\* a job whose body raised is inside its next invocation
C8_Witness == running /\ \E t \in TaskIds : InvokedAfterFailure(t)

\* this step is an invocation of the body of task t (the body may have
\* returned within the step)
Invoked(t) ==
    /\ t \in DOMAIN tasks
    /\ tasks'[t].runs # tasks[t].runs
    /\ tasks'[t].pc \in {"body", "sleep"}

\* C9: a job's first step after start() invokes its body, without a sleep
\* before it; a later invocation begins only out of the sleep that followed
\* the end of the previous invocation, and that sleep is of the job's interval.
C9_InvokeThenSleepInterval ==
    [][\A t \in DOMAIN tasks :
          /\ (tasks[t].pc = "new" /\ tasks'[t].pc \notin {"new", "cancelling"})
                => IF running THEN Invoked(t) ELSE tasks'[t].pc = "done"
          /\ Invoked(t)
                => \/ tasks[t].pc = "new"
                   \/ (tasks[t].pc = "sleep"
                       /\ tasks[t].timer = IntervalOf(tasks[t].job))
          /\ tasks'[t].pc = "body" => (tasks[t].pc = "body" \/ Invoked(t))
          /\ (tasks'[t].pc = "sleep" /\ tasks'[t] # tasks[t])
                => /\ tasks[t].pc = "body" \/ Invoked(t)
                   /\ tasks'[t].timer = IntervalOf(tasks[t].job)]_vars

\* one job sleeps after its invocation while another is inside its body
C9_Witness ==
    /\ running
    /\ \E t, u \in DOMAIN tasks :
          /\ tasks[t].pc = "sleep" /\ tasks[t].timer = IntervalOf(tasks[t].job)
          /\ tasks[t].runs = 1
          /\ tasks[u].pc = "body"

\* task t waits to be resumed by the event loop
Waiting(t) == Exists(t) /\ tasks[t].pc \in {"new", "sleep"}
\* task u fails, or is suspended in its body or in its sleep
Troubled(u) == Exists(u) /\ (tasks[u].raised \/ tasks[u].pc \in {"body", "sleep"})

\* C10: while the crawler is running, a job whose body fails every time, or
\* that is suspended in I/O or in its sleep, never keeps another job from
\* being invoked again: a job that goes on waiting beside such a job is
\* invoked again and again.
C10_JobsIndependent ==
    \A t \in TaskIds :
        \/ []<>(~(running /\ Waiting(t) /\ \E u \in DOMAIN tasks : u # t /\ Troubled(u)))
        \/ []<><<Invoked(t)>>_vars

\* a job that failed is suspended in its next invocation while another job
\* has been invoked, has returned and sleeps
C10_Witness ==
    /\ running
    /\ \E t, u \in DOMAIN tasks :
          /\ t # u
          /\ tasks[u].raised /\ tasks[u].pc = "body"
          /\ tasks[t].pc = "sleep" /\ ~tasks[t].raised

(***************************************************************************)
(* Claims about start(), stop() and get_status() (Spec, LiveSpec,          *)
(* SpecStatus).                                                            *)
(***************************************************************************)
\* this step is the end of a call of op by caller c (a call that never
\* suspends begins and ends in one step)
Ends(c, op) ==
    /\ callers'[c] = Idle
    /\ \/ callers[c].op = op
       \/ /\ MayCall(c)
          /\ callers' = callers
          /\ ncalls' = ncalls + 1
          /\ ended'.op = op
\* this step is the beginning of a call of op by caller c
Begins(c, op) ==
    /\ MayCall(c)
    /\ ncalls' = ncalls + 1
    /\ \/ callers'[c].op = op
       \/ callers' = callers /\ ended'.op = op
\* this step is the return of a call of op by caller c
Returns(c, op) == Ends(c, op) /\ ended' = Ended(op, "ok")
\* this step ends a call of op by caller c with an exception
Raises(c, op) == Ends(c, op) /\ ended' = Ended(op, "raised")
\* the session the crawler refers to is open / the engine it refers to is
\* not disposed
SessionOpen == SessionState = "open"
EngineOpen == engine # 0 /\ engine \notin disposed

\* C11: when stop() returns, every job task of the crawler is finished,
\* get_status reports no active task, and the crawler's session and engine
\* are closed (or were never made).
C11_Original_StopLeavesNothing ==
    [][\A c \in Callers :
          Returns(c, "stop")
              => /\ \A t \in DOMAIN tasks' : TaskDone(tasks'[t])
                 /\ get_status'.active_tasks = 0
                 /\ ~SessionOpen'
                 /\ ~EngineOpen']_vars

\* stop() has requested the cancellation of task t
CancelRequested(t) == tasks[t].pc \in {"cancelling", "cancelled"}

\* C12: a job that is alive (created, sleeping or inside its body) when
\* stop() is called is cancelled by that call, and from then on it never
\* invokes its body again: its only step is the one that ends it.
C12_NoInvocationAfterStop ==
    /\ [][\A c \in Callers : Begins(c, "stop")
              => \A t \in DOMAIN tasks :
                    ~TaskDone(tasks[t]) => tasks'[t].pc = "cancelling"]_vars
    /\ [][\A t \in DOMAIN tasks :
              (CancelRequested(t) \/ TaskDone(tasks[t]))
                  => /\ tasks'[t].pc # "body"
                     /\ tasks'[t].pc # tasks[t].pc => tasks'[t].pc = "cancelled"]_vars

\* stop() was called while jobs were alive: one cancelled job has ended,
\* another has yet to be resumed
C12_Witness ==
    \E t, u \in DOMAIN tasks :
        /\ tasks[t].pc = "cancelled"
        /\ tasks[u].pc = "cancelling"

\* caller c is inside stop(), waiting for the gather of the job tasks
AtGather(c) == callers[c].op = "stop" /\ callers[c].pc = "gather"

\* caller c is inside a call of stop()
InStop(c) == callers[c].op = "stop"

\* C13: stop() always terminates.  Called while jobs sleep or are inside a
\* body that never ends by itself, its wait for the job tasks comes to an
\* end, and the call itself ends (the closes of the session and of the
\* engine being calls that end): it returns, unless session.close() or
\* engine.dispose() raised -- a call of stop() ends with an exception only
\* in a stretch that had a session or an engine to close.
C13_StopNeverWaitsForever ==
    /\ \A c \in Callers : []<>(~AtGather(c))
    /\ \A c \in Callers : InStop(c) ~> ~InStop(c)
    /\ [][\A c \in Callers :
              Raises(c, "stop")
                  => \/ callers[c].pc \in {"close_session", "dispose"}
                     \/ SessionOpen
                     \/ engine # 0]_vars
    /\ [][\A c \in Callers :
              (AtGather(c) /\ ~AtGather(c)')
                  => \A t \in 1..callers[c].upto : TaskDone(tasks[t])]_vars

\* a stop() that cancelled job tasks and waited for them has returned, the
\* session closed and the engine disposed
C13_Witness ==
    /\ ended = Ended("stop", "ok")
    /\ \A c \in Callers : callers[c] = Idle
    /\ ~running
    /\ tasks # <<>>
    /\ \A t \in DOMAIN tasks : tasks[t].pc = "cancelled"
    /\ SessionState = "closed"
    /\ engine \in disposed

\* C14: start() called while the crawler is running returns at once and
\* changes nothing: no session is opened, no job task is created, the counts
\* of registered and of active jobs stay as they were.
C14_Original_StartIdempotent ==
    [][\A c \in Callers :
          (Begins(c, "start") /\ running)
              => /\ Returns(c, "start")
                 /\ session' = session
                 /\ made' = made
                 /\ tasks' = tasks
                 /\ get_status'.total_tasks = get_status.total_tasks
                 /\ get_status'.active_tasks = get_status.active_tasks]_vars

\* C15: stop() called while the crawler is not running returns without
\* suspending and changes no state; in particular it does not close or
\* dispose anything again.
C15_Original_StopIdempotent ==
    [][\A c \in Callers :
          (Begins(c, "stop") /\ ~running)
              => /\ Returns(c, "stop")
                 /\ UNCHANGED <<running, session, closed, engine, disposed,
                                initialized, tasks>>]_vars

\* Database.is_connected()
is_connected == initialized /\ engine # 0

\* C16: in every reachable state, suspension points of start() and stop()
\* included: if the crawler is running its session is open and its database
\* is initialised (and not disposed); if it is not running it has no open
\* session and no engine that is not disposed.
C16_Original_RunningIffResources ==
    /\ running => (SessionOpen /\ is_connected /\ EngineOpen)
    /\ ~running => (~SessionOpen /\ ~EngineOpen)

\* C17: a call of stop() never ends with an exception: when the close of
\* the session or the dispose of the engine fails, stop() still returns,
\* with the crawler not running and its engine disposed.
C17_Original_StopSwallowsErrors ==
    [][\A c \in Callers :
          Ends(c, "stop")
              => /\ Returns(c, "stop")
                 /\ ~running'
                 /\ ~EngineOpen']_vars

\* C18: a job body executes only while the crawler's resources are there:
\* whenever a task is inside its body the crawler's session is open and its
\* database is initialised.
C18_Original_BodyHasResources ==
    \A t \in DOMAIN tasks :
        tasks[t].pc = "body" => (SessionOpen /\ is_connected)

\* no call of start() or stop() is in progress
Quiet == \A c \in Callers : callers[c] = Idle

\* C19: whatever way calls of start() and stop() overlap, once they have
\* ended the crawler is never running with job tasks alive and its session
\* closed.
C19_Original_NeverRunningOnClosedSession ==
    (Quiet /\ running /\ Live # {}) => SessionState # "closed"

\* the job tasks that have not ended: created, inside the body, asleep, or
\* cancelled by stop() and not yet resumed
Unfinished ==
    { t \in DOMAIN tasks : tasks[t].pc \in {"new", "body", "sleep", "cancelling"} }

\* C20: get_status() can be called in every reachable state, also while a
\* start() or a stop() is suspended; the call changes no field of the
\* crawler, and what it returns agrees with the state: the running flag,
\* the number of job tasks that have not ended, the length of the task list,
\* and no more active tasks than tasks.
C20_StatusIsConsistentSnapshot ==
    /\ [](ENABLED GetStatusCall)
    /\ [][snapshot'.called
            => /\ UNCHANGED crawlerFields
               /\ snapshot'.running = running
               /\ snapshot'.active_tasks = Cardinality(Unfinished)
               /\ snapshot'.total_tasks = Len(tasks)
               /\ snapshot'.settings.enabled = enabled
               /\ snapshot'.active_tasks <= snapshot'.total_tasks]_vars

\* get_status() was called while a stop() was waiting for its tasks, some
\* of them ended and some not
C20_Witness ==
    /\ snapshot.called
    /\ \E c \in Callers : AtGather(c)
    /\ snapshot.active_tasks > 0
    /\ snapshot.active_tasks < snapshot.total_tasks

(***************************************************************************)
(* Further claims about batch_crawl (SpecBatch).                           *)
(***************************************************************************)
\* the limit the caller asked for: the argument, or the configured default
AskedLimit ==
    IF max_concurrent.given THEN max_concurrent.val ELSE DefaultMaxConcurrent

\* C21: batch_crawl of an empty list returns within its first stretch, the
\* result is empty, crawl_url was never called and every slot of the
\* semaphore is free.
C21_EmptyBatchReturnsEmpty ==
    /\ [][(bpc = "call" /\ urls = <<>> /\ bpc' # bpc)
              => bpc' = "returned"]_vars
    /\ [](  (bpc = "returned" /\ urls = <<>>)
            => /\ valid_results = <<>>
               /\ calls = <<>>
               /\ tpc = <<>>
               /\ waiters = <<>>
               /\ semaphore = AskedLimit)

\* batch_crawl([]) has returned, here with a limit of zero
C21_Witness ==
    /\ bpc = "returned"
    /\ urls = <<>>
    /\ max_concurrent = [given |-> TRUE, val |-> 0]

\* C22: with a limit above the number of identifiers the batch runs as if
\* there were no limit: no task ever waits for a slot, a slot is free
\* whenever a task asks for one, and the result is made of the
\* per-identifier results alone, whatever the limit.
C22_LargeLimitIsUnlimited ==
    (bpc \in {"gather", "returned"} /\ AskedLimit > Len(urls))
        => /\ waiters = <<>>
           /\ \A i \in DOMAIN tpc : tpc[i] # "waiting"
           /\ semaphore = AskedLimit - Cardinality(InFlight)
           /\ semaphore >= 1
           /\ bpc = "returned" =>
                 LET Kept(v) == v.py = "dict"
                 IN  valid_results = SelectSeq(results, Kept)

\* every fetch of a batch of several identifiers is in flight at once
C22_Witness ==
    /\ bpc = "gather"
    /\ Len(urls) >= 2
    /\ AskedLimit > Len(urls)
    /\ InFlight = 1..Len(urls)

(***************************************************************************)
(* Further claims about start(), stop() and the job tasks (Spec).          *)
(***************************************************************************)
\* C23: the crawler never holds two periodic tasks for the same job name at
\* once: a second registration of a name does not add a task to the first.
C23_Original_OneTaskPerJobName ==
    \A t, u \in Live : tasks[t].job = tasks[u].job => t = u

(***************************************************************************)
(* Claims about crawl_url and batch_crawl on a crawler that is not         *)
(* running (SpecBatch).                                                    *)
(***************************************************************************)
\* the crawler is not running and has no open session
NotRunning == ~running /\ SessionState \in {"none", "closed"}
\* the crawler was never started (no session) or was stopped (its session
\* is closed) when batch_crawl was called: no stop() was called since
NotStarted == NotRunning /\ ncalls = 0

\* C24 as stated: on a crawler that is not running, crawl_url and batch_crawl
\* surface an error to their caller: no crawl_url call of the batch returns
\* None and batch_crawl does not return a list.
C24_Original_NotRunningErrorSurfaced ==
    NotStarted
        => /\ bpc # "returned"
           /\ \A i \in Fetched : results[i] # PyNone

\* C24 amended: on a crawler that is not running, every crawl_url call
\* returns None (the error is logged, nothing is raised) and batch_crawl,
\* having called crawl_url once per identifier, returns an empty list.
\* A crawl_url call made once a stop() during the batch has closed the
\* session ends the same way.
C24_NotRunningYieldsNoneAndEmpty ==
    /\ [](NotStarted
            => /\ \A i \in Fetched : results[i] = PyNone /\ calls[i] = 1
               /\ InFlight = {}
               /\ bpc = "returned"
                     => (valid_results = <<>> /\ Fetched = 1..Len(urls)))
    /\ [][NotRunning
              => \A i \in DOMAIN calls :
                    calls'[i] # calls[i]
                        => (tpc'[i] = "done" /\ results'[i] = PyNone)]_vars

\* batch_crawl of several identifiers has returned on a stopped crawler
C24_Witness ==
    /\ SessionState = "closed"
    /\ NotStarted
    /\ bpc = "returned"
    /\ Len(urls) >= 2
    /\ valid_results = <<>>

(***************************************************************************)
(* Further claims about start(), stop() and the job tasks, continued       *)
(* (Spec, SpecStatus).                                                     *)
(***************************************************************************)
\* task t is inside an invocation of its job's body
InBody(t) == tasks[t].pc = "body"

\* C25: at most one invocation of a given job's body is in progress at any
\* time: two tasks that are inside a body at once belong to different jobs.
C25_Original_NoOverlapPerJob ==
    \A t, u \in DOMAIN tasks :
        (InBody(t) /\ InBody(u) /\ tasks[t].job = tasks[u].job) => t = u

\* C26: start() does not roll back when the database initialisation raises.
\* An enabled start() sets the flag and opens a new session before it
\* suspends; the step in which the exception leaves start() creates no job
\* task and leaves the flag, the session and the engine as they are; so
\* after a lone start() that raised, the crawler is running with an open
\* session, an uninitialised database and no job task.
C26_FailedStartIsNotRolledBack ==
    /\ [][\A c \in Callers :
              (Begins(c, "start") /\ enabled)
                  => /\ running'
                     /\ session' = made.sessions + 1
                     /\ session' \notin closed']_vars
    /\ [][\A c \in Callers :
              Raises(c, "start")
                  => /\ UNCHANGED <<closed, disposed, initialized, tasks>>
                     /\ ~Begins(c, "start")
                           => UNCHANGED <<running, session, engine>>]_vars
    /\ []((Quiet /\ ncalls = 1 /\ ended = Ended("start", "raised"))
            => (running /\ SessionOpen /\ ~initialized /\ tasks = <<>>))

\* a lone start() has raised out of the database initialisation
C26_Witness ==
    /\ Quiet
    /\ ncalls = 1
    /\ ended = Ended("start", "raised")
    /\ running
    /\ SessionOpen

\* C27: with the crawler disabled, start() returns at once and changes no
\* field of the crawler; the crawler then stays not running, without
\* session, engine or job task, get_status reports running false with zero
\* tasks, and stop() finds nothing to cancel or close and returns at once.
C27_DisabledStartChangesNothing ==
    /\ [][\A c \in Callers :
              (Begins(c, "start") /\ ~enabled)
                  => /\ Returns(c, "start")
                     /\ UNCHANGED <<running, session, closed, engine, disposed,
                                    made, initialized, tasks>>]_vars
    /\ [](~enabled => /\ ~running
                       /\ session = 0
                       /\ engine = 0
                       /\ ~initialized
                       /\ tasks = <<>>)
    /\ []((~enabled /\ snapshot.called)
            => /\ ~snapshot.running
               /\ snapshot.total_tasks = 0
               /\ snapshot.active_tasks = 0)
    /\ [][\A c \in Callers :
              (Begins(c, "stop") /\ ~enabled)
                  => /\ Returns(c, "stop")
                     /\ tasks' = tasks]_vars

\* get_status() is called right after a start() of the disabled crawler
C27_Witness ==
    /\ ~enabled
    /\ ended = Ended("start", "ok")
    /\ snapshot.called
    /\ ~snapshot.running

\* this step is the return of an enabled start(): it passed
\* _start_crawler_tasks
StartReachesTasks ==
    \E c \in Callers : Returns(c, "start") /\ enabled

\* C28: the task list only grows.  A step in which an enabled start()
\* returns appends exactly one new task for each of the three jobs; every
\* other step, those of stop() included, keeps the length of the list and
\* the job of every entry.  The length is thus three times the number of
\* enabled starts that returned, and that is what get_status reports as
\* total_tasks, finished tasks included.
C28_TaskListOnlyGrows ==
    /\ [][/\ \A t \in DOMAIN tasks :
                t \in DOMAIN tasks' /\ tasks'[t].job = tasks[t].job
           /\ IF StartReachesTasks
              THEN /\ Len(tasks') = Len(tasks) + 3
                   /\ \A j \in Jobs :
                         /\ tasks'[Len(tasks) + j].job = j
                         /\ ~TaskDone(tasks'[Len(tasks) + j])
              ELSE Len(tasks') = Len(tasks)]_vars
    /\ [](snapshot.called => snapshot.total_tasks = Len(tasks))

\* get_status() reports six registered tasks of which three are finished:
\* the crawler was started, stopped and started again
C28_Witness ==
    /\ snapshot.called
    /\ snapshot.total_tasks = 6
    /\ snapshot.active_tasks = 3
    /\ \A t \in 1..3 : TaskDone(tasks[t])

(***************************************************************************)
(* Further claims about batch_crawl (SpecBatch, LiveBatch).                *)
(***************************************************************************)
\* the identifiers whose crawl_url call returned a dict
KeptIds == { i \in DOMAIN results : results[i].py = "dict" }
\* the place of identifier i among the kept ones
Rank(i) == Cardinality({ k \in KeptIds : k <= i })

\* C29: the list batch_crawl returns holds, in the order of the
\* identifiers, exactly the per-identifier results that are dicts.  Each is
\* what a crawl_url call returned for a 200 response (the parsed JSON object
\* or the text record); an identifier whose call returned None (a failed or
\* refused fetch) or a parsed JSON array has no element, so the list is a
\* subsequence of the results of length at most n.
C29_ReturnedAreDictsOfSuccessfulFetches ==
    bpc = "returned" =>
        /\ Len(valid_results) = Cardinality(KeptIds)
        /\ Len(valid_results) <= Len(urls)
        /\ \A i \in KeptIds :
              /\ valid_results[Rank(i)] = results[i]
              /\ calls[i] = 1
              /\ results[i].url = urls[i]
              /\ results[i].json = "object" \/ results[i].status = HTTP_OK
        /\ \A i \in DOMAIN results \ KeptIds :
              /\ results[i].py \in {"None", "list"}
              /\ \A j \in DOMAIN valid_results : valid_results[j].url # urls[i]

\* of two identifiers the first gave a JSON array and the second a JSON
\* object: only the second has an element
C29_Witness ==
    /\ bpc = "returned"
    /\ Len(urls) = 2
    /\ results[1].py = "list"
    /\ results[2].py = "dict" /\ results[2].json = "object"
    /\ valid_results = <<results[2]>>

\* the waiters that a release has given a slot and that have not resumed
Woken == { p \in DOMAIN waiters : waiters[p].done }

\* C30: with a limit of at least one, a batch_crawl that awaits its fetches
\* returns, provided every crawl_url call ends.  The step that ends a fetch
\* frees its slot whatever the outcome: the counter goes up by one, or the
\* slot goes to the first waiter that was not yet woken.  Every slot is
\* free, held by a fetch in progress or held for a woken waiter; an
\* identifier leaves the queue of waiters only by being admitted to its
\* fetch; and when batch_crawl returns every identifier has been admitted
\* and has finished, all slots are free and nobody waits.
C30_BatchReturnsAndFreesSlots ==
    /\ (bpc = "gather" /\ AskedLimit >= 1) ~> (bpc = "returned")
    /\ [][\A i \in DOMAIN tpc :
              /\ (tpc[i] = "fetching" /\ tpc'[i] = "done")
                    => \/ semaphore' = semaphore + 1 /\ waiters' = waiters
                       \/ /\ semaphore' = semaphore
                          /\ Cardinality(Woken') = Cardinality(Woken) + 1
              /\ (tpc[i] = "waiting" /\ tpc'[i] # "waiting")
                    => (calls'[i] = 1 /\ tpc'[i] \in {"fetching", "done"})]_vars
    /\ [](bpc \in {"gather", "returned"}
            => semaphore + Cardinality(InFlight) + Cardinality(Woken) = AskedLimit)
    /\ []((bpc = "returned" /\ AskedLimit >= 1)
            => /\ semaphore = AskedLimit
               /\ waiters = <<>>
               /\ \A i \in DOMAIN urls : tpc[i] = "done" /\ calls[i] = 1)

\* batch_crawl has returned with one slot for two identifiers, of which
\* the first failed: the second waited and was admitted
C30_Witness ==
    /\ bpc = "returned"
    /\ AskedLimit = 1
    /\ Len(urls) = 2
    /\ SessionState = "open"
    /\ results[1] = PyNone
    /\ IsDict(results[2])
    /\ order = <<1, 2>>
    /\ semaphore = 1

\* batch_crawl was called with max_concurrent = 0 and at least one identifier
ZeroLimit == max_concurrent = [given |-> TRUE, val |-> 0] /\ urls # <<>>

\* C31: batch_crawl with max_concurrent = 0 and a non-empty list never
\* returns.  The semaphore is made with the 0 that was given, not with the
\* configured limit; no task is admitted and crawl_url is never called; with
\* a fair event loop every task ends up in the queue of waiters and stays
\* there.
C31_ZeroLimitNeverReturns ==
    /\ [](ZeroLimit
            => /\ bpc # "returned"
               /\ InFlight = {}
               /\ \A i \in DOMAIN tpc :
                     calls[i] = 0 /\ tpc[i] \in {"created", "waiting"}
               /\ bpc = "gather" => semaphore = 0)
    /\ (ZeroLimit /\ bpc = "gather")
          ~> [](Len(waiters) = Len(urls) /\ bpc = "gather")

\* two identifiers, limit 0: both tasks wait for a slot
C31_Witness ==
    /\ ZeroLimit
    /\ Len(urls) = 2
    /\ bpc = "gather"
    /\ Len(waiters) = 2
    /\ semaphore = 0

(***************************************************************************)
(* Claims about Database.initialize (SpecDatabase).                        *)
(***************************************************************************)
\* caller c is suspended inside Database.initialize
InInitialize(c) == callers[c].pc \in {"test_connection", "create_tables"}
\* engine e was made and is no longer referred to by the Database, nor was
\* it disposed, nor is a stop() about to dispose it
Leaked(e) ==
    /\ e # engine
    /\ e \notin disposed
    /\ \A c \in Callers : ~(callers[c].pc = "dispose" /\ callers[c].obj = e)

\* C32: a Database creates its engine at most once: no engine is made once
\* initialize() has succeeded, none is made while a call of initialize() is
\* in progress, and no engine that was made is leaked.
C32_Original_EngineCreatedOnce ==
    /\ [][initialized => made'.engines = made.engines]_vars
    /\ [][(\E c \in Callers : InInitialize(c))
              => made'.engines = made.engines]_vars
    /\ [](\A e \in 1..made.engines : ~Leaked(e))

====
